---------------------------- MODULE Spec2Model ----------------------------
(***************************************************************************)
(* Model of app.py, the IPL player analytics dashboard: the three loaded   *)
(* tables, the season resolver get_season_data, the ranking function       *)
(* suggest_players, the per-session state of st.session_state and one      *)
(* script run (sidebar, suggestion form, result display, comparison tab).  *)
(***************************************************************************)
EXTENDS Integers, Sequences, FiniteSets, TLC

VARIABLES
    players_df,         \* player_features_with_score.csv   (app.py:16)
    deliveries_df,      \* deliveries.csv                   (app.py:17)
    matches_df,         \* matches.csv                      (app.py:18)
    selected_season,    \* st.session_state.selected_season (app.py:24-25)
    suggestions_df,     \* st.session_state.suggestions_df  (app.py:27-28)
    widget_season,      \* value of the sidebar selectbox   (app.py:63)
    season_matches,     \* first result of get_season_data  (app.py:70)
    players_season_df,  \* second result of get_season_data (app.py:70)
    form,               \* what the suggestion form did in the latest run
    display,            \* what the result display did in the latest run
    tab2,               \* widgets and outcome of the comparison tab
    last_call,          \* arguments of the latest suggest_players call
    engine,             \* latest direct call of suggest_players
    pc                  \* "start" before the first script run

vars == <<players_df, deliveries_df, matches_df, selected_season,
          suggestions_df, widget_season, season_matches, players_season_df,
          form, display, tab2, last_call, engine, pc>>

-----------------------------------------------------------------------------
(* Bounds of the model. *)

MaxDeliveries == 2      \* rows of deliveries.csv in the resolver runs
MaxPlayers == 2         \* rows of the players table in the resolver runs
MaxSessionDeliveries == 3   \* rows of deliveries.csv in the session runs
MaxRows == 3            \* rows of the season table handed to suggest_players
MaxN == 4               \* largest n handed to suggest_players directly
MaxStat == 1            \* largest runs / wickets / score in the comparison runs

-----------------------------------------------------------------------------
(* Values. *)

\* Python's None: an unset session key, a selectbox with no options.
None == "None"

\* st.session_state.suggestions_df: None, or a frame of rows.
NoFrame == [is_none |-> TRUE, rows |-> <<>>]

Frame(rows) == [is_none |-> FALSE, rows |-> rows]

\* pandas' missing value: what read_csv gives for an empty field.
NaN == "nan"

\* The orders sorted() uses, ascending.
SeasonOrder == <<"2019", "2020">>
TeamOrder == <<"X", "Y", "Z">>
NameOrder == <<"a", "b", "c", "d">>

Range(s) == {s[i] : i \in DOMAIN s}

Seasons == Range(SeasonOrder)
Teams == Range(TeamOrder)

Min(a, b) == IF a < b THEN a ELSE b

Reverse(s) == [i \in 1..Len(s) |-> s[Len(s) + 1 - i]]

\* All sequences over S of length at most n.
SeqUpTo(S, n) == UNION {[1..k -> S] : k \in 0..n}

\* Python's == on two values: NaN equals nothing, itself included; None
\* equals only None, and no cell of a table is None.
PyEq(x, y) == x # NaN /\ y # NaN /\ x = y

\* sorted(values) of distinct values, by the given ascending order.
sorted(S, order) == SelectSeq(order, LAMBDA x : x \in S)

-----------------------------------------------------------------------------
(* get_season_data *)

\* A resolver that forgets drop_duplicates.
keep_duplicates(s) == s

\* DataFrame.drop_duplicates: the first occurrence of each row is kept.
RECURSIVE drop_duplicates(_)
drop_duplicates(s) ==
    IF s = <<>> THEN <<>>
    ELSE LET front == drop_duplicates(SubSeq(s, 1, Len(s) - 1))
             last == s[Len(s)]
         IN  IF last \in Range(front) THEN front ELSE Append(front, last)

\* deliveries[["batter", "batting_team"]].drop_duplicates().rename(...)
player_team_map(season_deliveries) ==
    drop_duplicates([i \in 1..Len(season_deliveries) |->
        [player |-> season_deliveries[i].batter,
         team |-> season_deliveries[i].batting_team]])

JoinRow(p, m) ==
    [player |-> p.player, runs |-> p.runs, wickets |-> p.wickets,
     performance_score |-> p.performance_score, team |-> m.team]

\* left.merge(right, on="player", how="inner"): the left rows in order, each
\* with its matching right rows in order; equal keys match, NaN keys too.
RECURSIVE merge(_, _)
merge(left, right) ==
    IF left = <<>> THEN <<>>
    ELSE LET p == left[Len(left)]
             hits == SelectSeq(right, LAMBDA m : m.player = p.player)
         IN  merge(SubSeq(left, 1, Len(left) - 1), right)
             \o [i \in 1..Len(hits) |-> JoinRow(p, hits[i])]

get_season_data(season) ==
    LET sm == SelectSeq(matches_df, LAMBDA m : m.season = season)
        match_ids == {sm[i].id : i \in DOMAIN sm}
        season_deliveries ==
            SelectSeq(deliveries_df, LAMBDA d : d.match_id \in match_ids)
    IN  [season_matches |-> sm,
         players_season |-> merge(players_df, player_team_map(season_deliveries))]

\* sorted(matches_df["season"].dropna().unique(), reverse=True)
seasons ==
    Reverse(sorted({matches_df[i].season : i \in DOMAIN matches_df}, SeasonOrder))

\* sorted(pd.unique(season_matches[["team1", "team2"]].values.ravel()))
teams(sm) ==
    sorted({sm[i].team1 : i \in DOMAIN sm} \cup {sm[i].team2 : i \in DOMAIN sm},
           TeamOrder)

-----------------------------------------------------------------------------
(* suggest_players *)

ScoredRow(r) ==
    [player |-> r.player, runs |-> r.runs, wickets |-> r.wickets,
     performance_score |-> r.performance_score, team |-> r.team,
     final_score |-> r.performance_score]

\* df[df["team"].isin([team_a, team_b])].copy() with the final_score column
Eligible(df, team_a, team_b) ==
    LET kept == SelectSeq(df, LAMBDA r : r.team \in {team_a, team_b})
    IN  [i \in 1..Len(kept) |-> ScoredRow(kept[i])]

Orderings(n) ==
    {f \in [1..n -> 1..n] : \A i, j \in 1..n : i # j => f[i] # f[j]}

\* A sort that forgets ascending=False.
sort_values_ascending(rows) ==
    {[i \in 1..Len(rows) |-> rows[f[i]]] : f \in
        {g \in Orderings(Len(rows)) :
            \A i \in 1..(Len(rows) - 1) :
                rows[g[i]].final_score <= rows[g[i + 1]].final_score}}

\* sort_values("final_score", ascending=False) with the default kind,
\* quicksort, which is not stable: every descending arrangement of the rows
\* is a possible result.
sort_values(rows) ==
    {[i \in 1..Len(rows) |-> rows[f[i]]] : f \in
        {g \in Orderings(Len(rows)) :
            \A i \in 1..(Len(rows) - 1) :
                rows[g[i]].final_score >= rows[g[i + 1]].final_score}}

\* DataFrame.head(n) for n >= 0
head(rows, n) == SubSeq(rows, 1, Min(n, Len(rows)))

\* The possible results of suggest_players(df, team_a, team_b, n).
suggest_players(df, team_a, team_b, n) ==
    {head(s, n) : s \in sort_values(Eligible(df, team_a, team_b))}

-----------------------------------------------------------------------------
(* Values of the variables a run does not touch. *)

NoForm == [submitted |-> FALSE, outcome |-> "idle", called |-> FALSE,
           team_a |-> None, team_b |-> None, top_n |-> 0]

NoTab2 == [teams_available |-> <<>>, team_1 |-> None, player_1 |-> None,
           team_2 |-> None, player_2 |-> None, compared |-> FALSE,
           outcome |-> "not_run",
           batting |-> None, bowling |-> None, overall |-> None]

NoCall == [made |-> FALSE, season |-> None, eligible |-> 0]

NoEngine == [op |-> "none", team_a |-> None, team_b |-> None, n |-> 0,
             result |-> <<>>]

\* The session before the first script run: no key of st.session_state set.
FreshSession ==
    /\ selected_season = None
    /\ suggestions_df = NoFrame
    /\ widget_season = None
    /\ season_matches = <<>>
    /\ players_season_df = <<>>
    /\ form = NoForm
    /\ display = "not_run"
    /\ tab2 = NoTab2
    /\ last_call = NoCall
    /\ engine = NoEngine
    /\ pc = "start"

Match(id, season, team1, team2) ==
    [id |-> id, season |-> season, team1 |-> team1, team2 |-> team2]

-----------------------------------------------------------------------------
(* The season resolver on its own: tables of bounded size, one call of     *)
(* get_season_data per step.                                               *)

MatchTables ==
    { <<Match(1, "2019", "X", "Y"), Match(2, "2020", "Y", "Z")>>,
      <<Match(1, "2019", "X", "Y"), Match(2, "2019", "Y", "Z")>>,
      <<Match(1, "2020", "X", "Y"), Match(2, "2019", "X", "Y")>>,
      <<Match(1, "2020", "X", "Z")>> }

DeliveryRows ==
    [match_id : {1, 2}, batter : {"a", "b"}, batting_team : Teams]

\* A players table: row i carries i as its runs and score, so that two rows
\* of one player stay two rows.
PlayerTable(names) ==
    [i \in 1..Len(names) |->
        [player |-> names[i], runs |-> i, wickets |-> 0,
         performance_score |-> i]]

InitResolve ==
    /\ matches_df \in MatchTables
    /\ deliveries_df \in SeqUpTo(DeliveryRows, MaxDeliveries)
    /\ \E names \in SeqUpTo({"a", "b"}, MaxPlayers) :
           players_df = PlayerTable(names)
    /\ FreshSession

\* season_matches, players_season_df = get_season_data(selected_season)
GetSeasonData(s) ==
    /\ s \in Range(seasons)
    /\ widget_season' = s
    /\ season_matches' = get_season_data(s).season_matches
    /\ players_season_df' = get_season_data(s).players_season
    /\ pc' = "resolved"
    /\ UNCHANGED <<players_df, deliveries_df, matches_df, selected_season,
                   suggestions_df, form, display, tab2, last_call, engine>>

NextResolve == \E s \in Seasons : GetSeasonData(s)

SpecResolve == InitResolve /\ [][NextResolve]_vars

-----------------------------------------------------------------------------
(* suggest_players on its own: a season table of bounded size, one call    *)
(* with any two teams and any n >= 0 per step.                             *)

Scores == {1, 2}

InitSuggest ==
    /\ matches_df = <<Match(1, "2019", "X", "Y"), Match(2, "2019", "Y", "Z")>>
    /\ \E k \in 0..MaxRows :
         /\ \E score \in [1..k -> Scores] :
              players_df = [i \in 1..k |->
                  [player |-> NameOrder[i], runs |-> 0, wickets |-> 0,
                   performance_score |-> score[i]]]
         /\ \E team \in [1..k -> Teams] :
              deliveries_df = [i \in 1..k |->
                  [match_id |-> 1, batter |-> NameOrder[i],
                   batting_team |-> team[i]]]
    /\ FreshSession

ResolveForSuggest ==
    /\ pc = "start"
    /\ GetSeasonData("2019")

CallSuggest(team_a, team_b, n) ==
    /\ pc = "resolved"
    /\ \E r \in suggest_players(players_season_df, team_a, team_b, n) :
           engine' = [op |-> "suggest", team_a |-> team_a, team_b |-> team_b,
                      n |-> n, result |-> r]
    /\ pc' = "called"
    /\ UNCHANGED <<players_df, deliveries_df, matches_df, selected_season,
                   suggestions_df, widget_season, season_matches,
                   players_season_df, form, display, tab2, last_call>>

NextSuggest ==
    \/ ResolveForSuggest
    \/ \E team_a, team_b \in Teams, n \in 0..MaxN : CallSuggest(team_a, team_b, n)

SpecSuggest == InitSuggest /\ [][NextSuggest]_vars

-----------------------------------------------------------------------------
(* One script run: sidebar, suggestion form, result display, comparison.   *)

\* if st.session_state.selected_season != selected_season
SeasonChanged(recorded, chosen) == recorded # chosen

\* A reset that records the new season and keeps the old suggestions.
KeepOnSeasonChange(changed, stored) == stored

\* st.session_state.suggestions_df = None when the season changed
AfterSeasonCheck(changed, stored) == IF changed THEN NoFrame ELSE stored

\* A number_input with min_value=0.
TopNFromZero(max_available) ==
    IF max_available > 0 THEN 0..max_available ELSE {1}

\* The values top_n can take: the number_input's range, or the constant 1.
TopNRange(max_available) ==
    IF max_available > 0 THEN 1..max_available ELSE {1}

\* The branch the submit handler takes.
FormOutcome(submitted, team_a, team_b, max_available) ==
    IF ~submitted THEN "idle"
    ELSE IF team_a = team_b THEN "error"
    ELSE IF max_available = 0 THEN "warning"
    ELSE "stored"

\* A handler that clears the stored suggestions when it rejects the form.
ClearOnReject(outcome, stored, computed) ==
    IF outcome = "stored" THEN computed
    ELSE IF outcome = "idle" THEN stored ELSE NoFrame

\* What the session holds after the form: the new result only when stored.
AfterForm(outcome, stored, computed) ==
    IF outcome = "stored" THEN computed ELSE stored

\* The result display: st.info without suggestions, else metrics, best pick
\* (result.iloc[0], an IndexError on an empty result), table and chart.
Display(stored) ==
    IF stored.is_none THEN "info"
    ELSE IF Len(stored.rows) = 0 THEN "crash"
    ELSE "results"

\* st.selectbox(label, options, index): None without options, the user's
\* choice when it is one of the options, else the option at index.
selectbox(options, index, chosen) ==
    IF options = <<>> THEN None
    ELSE IF chosen \in Range(options) THEN chosen
    ELSE options[index + 1]

\* st.selectbox raises when index is not a position of a non-empty options.
IndexOutOfRange(options, index) ==
    Len(options) > 0 /\ index >= Len(options)

\* players_season_df[players_season_df["team"] == team]["player"].unique()
PlayerNames(view, team) ==
    {view[i].player : i \in {j \in DOMAIN view : PyEq(view[j].team, team)}}

\* sorted() of names raises TypeError when it must compare NaN with a string.
SortRaises(names) == NaN \in names /\ Cardinality(names) >= 2

sorted_players(names) ==
    IF names = {NaN} THEN <<NaN>> ELSE sorted(names, NameOrder)

\* players_season_df[(team column == team) & (player column == player)]
Lookup(view, team, player) ==
    SelectSeq(view, LAMBDA r : PyEq(r.team, team) /\ PyEq(r.player, player))

\* A verdict that also names player 1 on a tie.
VerdictTieToFirst(v1, v2, player_1, player_2) ==
    IF v1 >= v2 THEN player_1 ELSE player_2

\* One of the three verdicts: the name shown, or "Equal".
Verdict(v1, v2, player_1, player_2) ==
    IF v1 > v2 THEN player_1
    ELSE IF v2 > v1 THEN player_2
    ELSE "Equal"

\* A run that ends in an exception while building the four widgets.
WidgetCrash(teams_available, team_1, player_1, team_2, player_2) ==
    [teams_available |-> teams_available, team_1 |-> team_1,
     player_1 |-> player_1, team_2 |-> team_2, player_2 |-> player_2,
     compared |-> FALSE, outcome |-> "crash", batting |-> None,
     bowling |-> None, overall |-> None]

\* The comparison once the four widgets have their values: the warning for
\* equal selections, else the two lookups (.iloc[0] raises IndexError on no
\* row), the table and the three verdicts.
compare(view, teams_available, team_1, player_1, team_2, player_2) ==
    LET done(outcome, batting, bowling, overall) ==
            [teams_available |-> teams_available, team_1 |-> team_1,
             player_1 |-> player_1, team_2 |-> team_2, player_2 |-> player_2,
             compared |-> TRUE, outcome |-> outcome, batting |-> batting,
             bowling |-> bowling, overall |-> overall]
        rows_1 == Lookup(view, team_1, player_1)
        rows_2 == Lookup(view, team_2, player_2)
    IN  IF PyEq(team_1, team_2) /\ PyEq(player_1, player_2)
        THEN done("warning", None, None, None)
        ELSE IF rows_1 = <<>> \/ rows_2 = <<>>
        THEN done("crash", None, None, None)
        ELSE LET p1 == rows_1[1]
                 p2 == rows_2[1]
             IN  done("table",
                      Verdict(p1.runs, p2.runs, player_1, player_2),
                      Verdict(p1.wickets, p2.wickets, player_1, player_2),
                      Verdict(p1.performance_score, p2.performance_score,
                              player_1, player_2))

\* The comparison tab; w holds what the user has chosen in the four
\* selectboxes. A widget the run does not reach has the value None.
Tab2(view, w) ==
    LET teams_available ==
            sorted({view[i].team : i \in DOMAIN view}, TeamOrder)
        team_1 == selectbox(teams_available, 0, w.team_1)
        names_1 == PlayerNames(view, team_1)
    IN  IF SortRaises(names_1)
        THEN WidgetCrash(teams_available, team_1, None, None, None)
        ELSE
        LET player_1 == selectbox(sorted_players(names_1), 0, w.player_1)
        IN  IF IndexOutOfRange(teams_available, 1)
            THEN WidgetCrash(teams_available, team_1, player_1, None, None)
            ELSE
            LET team_2 == selectbox(teams_available, 1, w.team_2)
                names_2 == PlayerNames(view, team_2)
            IN  IF SortRaises(names_2)
                THEN WidgetCrash(teams_available, team_1, player_1, team_2, None)
                ELSE
                LET player_2 ==
                        selectbox(sorted_players(names_2), 0, w.player_2)
                IN  compare(view, teams_available,
                            team_1, player_1, team_2, player_2)

\* One run of the script with the given widget values.
Run(season, submitted, team_a, team_b, top_n, w) ==
    LET changed == SeasonChanged(selected_season, season)
        stored == AfterSeasonCheck(changed, suggestions_df)
    IN  /\ selected_season' = IF changed THEN season ELSE selected_season
        /\ widget_season' = season
        /\ season_matches' = get_season_data(season).season_matches
        /\ players_season_df' = get_season_data(season).players_season
        /\ LET max_available == Len(Eligible(players_season_df', team_a, team_b))
               outcome == FormOutcome(submitted, team_a, team_b, max_available)
               called == outcome = "stored"
           IN  /\ form' = [submitted |-> submitted, outcome |-> outcome,
                           called |-> called,
                           team_a |-> IF called THEN team_a ELSE None,
                           team_b |-> IF called THEN team_b ELSE None,
                           top_n |-> IF called THEN top_n ELSE 0]
               /\ last_call' = IF called
                               THEN [made |-> TRUE, season |-> season,
                                     eligible |-> max_available]
                               ELSE last_call
               /\ \E result \in
                      (IF called
                       THEN suggest_players(players_season_df',
                                            team_a, team_b, top_n)
                       ELSE {<<>>}) :
                      suggestions_df' = AfterForm(outcome, stored, Frame(result))
        /\ display' = Display(suggestions_df')
        /\ tab2' = IF display' = "crash" THEN NoTab2
                   ELSE Tab2(players_season_df', w)
        /\ pc' = "idle"
        /\ UNCHANGED <<players_df, deliveries_df, matches_df, engine>>

\* The form's widgets when the form is not submitted: their values are read
\* but nothing depends on them.
Unsubmitted(season, w) ==
    LET ts == teams(get_season_data(season).season_matches)
    IN  Run(season, FALSE, selectbox(ts, 0, None), selectbox(ts, 0, None), 1, w)

NoChoice == [team_1 |-> None, player_1 |-> None,
             team_2 |-> None, player_2 |-> None]

\* What the four selectboxes of the comparison tab hold: a selectbox keeps
\* the user's choice while the choice is among its options.
Chosen == [team_1 |-> tab2.team_1, player_1 |-> tab2.player_1,
           team_2 |-> tab2.team_2, player_2 |-> tab2.player_2]

\* The first run of a session: every widget at its default.
FirstRun ==
    /\ pc = "start"
    /\ Unsubmitted(selectbox(seasons, 0, None), NoChoice)

\* The user picks another season in the sidebar.
SelectSeason(s) ==
    /\ pc = "idle"
    /\ s \in Range(seasons)
    /\ s # widget_season
    /\ Unsubmitted(s, Chosen)

\* The user presses "Generate AI Suggestions".
SubmitForm(team_a, team_b, top_n) ==
    /\ pc = "idle"
    /\ team_a \in Range(teams(season_matches))
    /\ team_b \in Range(teams(season_matches))
    /\ top_n \in TopNRange(Len(Eligible(players_season_df, team_a, team_b)))
    /\ Run(widget_season, TRUE, team_a, team_b, top_n, Chosen)

\* The user picks another team in "Select Team 1".
ChangeTeam1(t) ==
    /\ pc = "idle"
    /\ t \in Range(tab2.teams_available)
    /\ t # tab2.team_1
    /\ Unsubmitted(widget_season, [Chosen EXCEPT !.team_1 = t])

\* The user picks another player in "Select Player 1".
ChangePlayer1(p) ==
    /\ pc = "idle"
    /\ tab2.player_1 # None
    /\ p \in PlayerNames(players_season_df, tab2.team_1)
    /\ p # tab2.player_1
    /\ Unsubmitted(widget_season, [Chosen EXCEPT !.player_1 = p])

\* The user picks another team in "Select Team 2".
ChangeTeam2(t) ==
    /\ pc = "idle"
    /\ tab2.team_2 # None
    /\ t \in Range(tab2.teams_available)
    /\ t # tab2.team_2
    /\ Unsubmitted(widget_season, [Chosen EXCEPT !.team_2 = t])

\* The user picks another player in "Select Player 2".
ChangePlayer2(p) ==
    /\ pc = "idle"
    /\ tab2.player_2 # None
    /\ p \in PlayerNames(players_season_df, tab2.team_2)
    /\ p # tab2.player_2
    /\ Unsubmitted(widget_season, [Chosen EXCEPT !.player_2 = p])

PlayerValues == Range(NameOrder) \cup {NaN}

ChangeComparison ==
    \/ \E t \in Teams : ChangeTeam1(t)
    \/ \E p \in PlayerValues : ChangePlayer1(p)
    \/ \E t \in Teams : ChangeTeam2(t)
    \/ \E p \in PlayerValues : ChangePlayer2(p)

Next ==
    \/ FirstRun
    \/ \E s \in Seasons : SelectSeason(s)
    \/ \E team_a, team_b \in Teams, top_n \in 0..MaxSessionDeliveries :
           SubmitForm(team_a, team_b, top_n)
    \/ ChangeComparison

Delivery(match_id, batter, batting_team) ==
    [match_id |-> match_id, batter |-> batter, batting_team |-> batting_team]

\* The rows of list that are in S, in the order of list.
Pick(list, S) == SelectSeq(list, LAMBDA r : r \in S)

\* A session over two seasons: two listed players, and at most
\* MaxSessionDeliveries of the deliveries the first two matches can have;
\* the third match has none.
SessionDeliveries ==
    << Delivery(1, "a", "X"), Delivery(1, "b", "X"),
       Delivery(1, "a", "Y"), Delivery(1, "b", "Y"),
       Delivery(2, "a", "Y"), Delivery(2, "b", "Y"),
       Delivery(2, "a", "Z"), Delivery(2, "b", "Z") >>

InitSession ==
    /\ matches_df = << Match(1, "2019", "X", "Y"), Match(2, "2020", "Y", "Z"),
                       Match(3, "2019", "Y", "Z") >>
    /\ \E S \in SUBSET Range(SessionDeliveries) :
         /\ Cardinality(S) <= MaxSessionDeliveries
         /\ deliveries_df = Pick(SessionDeliveries, S)
    /\ players_df =
           << [player |-> "a", runs |-> 2, wickets |-> 0, performance_score |-> 1],
              [player |-> "b", runs |-> 1, wickets |-> 1, performance_score |-> 2] >>
    /\ FreshSession

Spec == InitSession /\ [][Next]_vars

\* Sessions of one season in which only the comparison tab is used: two
\* listed players with any statistics, the second possibly without a name,
\* each batting for any of the two teams.
Stats == 0..MaxStat

InitCompare ==
    /\ matches_df = <<Match(1, "2019", "X", "Y")>>
    /\ \E name_2 \in {"b", NaN} :
         /\ \E st \in [{"r1", "w1", "s1", "r2", "w2", "s2"} -> Stats] :
              players_df =
                  << [player |-> "a", runs |-> st["r1"], wickets |-> st["w1"],
                      performance_score |-> st["s1"]],
                     [player |-> name_2, runs |-> st["r2"], wickets |-> st["w2"],
                      performance_score |-> st["s2"]] >>
         /\ LET all == << Delivery(1, "a", "X"), Delivery(1, "a", "Y"),
                          Delivery(1, name_2, "X"), Delivery(1, name_2, "Y") >>
            IN  \E S \in SUBSET Range(all) : deliveries_df = Pick(all, S)
    /\ FreshSession

NextCompare ==
    \/ FirstRun
    \/ ChangeComparison

SpecCompare == InitCompare /\ [][NextCompare]_vars

-----------------------------------------------------------------------------
(* Properties of get_season_data (SpecResolve). *)

\* The ids of the matches of the resolved season.
SeasonMatchIds ==
    {matches_df[i].id : i \in {j \in DOMAIN matches_df :
                                  matches_df[j].season = widget_season}}

\* The (player, team) pairs the season's deliveries give the listed players.
SeasonPairs ==
    {<<players_df[i].player, deliveries_df[j].batting_team>> :
        <<i, j>> \in {x \in (DOMAIN players_df) \X (DOMAIN deliveries_df) :
            /\ deliveries_df[x[2]].match_id \in SeasonMatchIds
            /\ deliveries_df[x[2]].batter = players_df[x[1]].player}}

ViewRowsOf(p, t) ==
    {i \in DOMAIN players_season_df :
        players_season_df[i].player = p /\ players_season_df[i].team = t}

PlayerRowsOf(p) == {i \in DOMAIN players_df : players_df[i].player = p}

\* C2: every row of the season player view has a team that is team1 or team2
\* of some match of the resolved season.
C2_TeamInSeasonTeams ==
    pc = "resolved" =>
        \A i \in DOMAIN players_season_df :
            players_season_df[i].team \in Range(teams(season_matches))

\* C7: the season player view holds exactly the (player, team) pairs that the
\* deliveries of the season's matches give the players of the players table,
\* each pair once per row the player has in the players table: once per team
\* for a player with several teams, not at all for a player who did not bat
\* in the season, and never twice when the player has one row.
C7_ViewIsSeasonPairs ==
    pc = "resolved" =>
        /\ {<<players_season_df[i].player, players_season_df[i].team>> :
                i \in DOMAIN players_season_df} = SeasonPairs
        /\ \A pt \in SeasonPairs :
               Cardinality(ViewRowsOf(pt[1], pt[2]))
                   = Cardinality(PlayerRowsOf(pt[1]))

\* C7 witness: a player with one row in the players table and two teams in
\* the season is in the view twice, and another listed player is not in the
\* view at all.
C7_Witness ==
    /\ pc = "resolved"
    /\ \E i, j \in DOMAIN players_season_df :
           /\ players_season_df[i].player = players_season_df[j].player
           /\ players_season_df[i].team # players_season_df[j].team
           /\ Cardinality(PlayerRowsOf(players_season_df[i].player)) = 1
    /\ \E i \in DOMAIN players_df :
           \A j \in DOMAIN players_season_df :
               players_season_df[j].player # players_df[i].player

-----------------------------------------------------------------------------
(* Properties of suggest_players (SpecSuggest). *)

EligibleRows == Eligible(players_season_df, engine.team_a, engine.team_b)

EligibleCount == Len(EligibleRows)

Descending(rows) ==
    \A i, j \in DOMAIN rows :
        i < j => rows[i].final_score >= rows[j].final_score

\* The rows in descending score order, equal scores in their input order.
RECURSIVE StableDescending(_)
StableDescending(rows) ==
    IF rows = <<>> THEN <<>>
    ELSE LET front == StableDescending(SubSeq(rows, 1, Len(rows) - 1))
             last == rows[Len(rows)]
             k == Cardinality({i \in DOMAIN front :
                                  front[i].final_score >= last.final_score})
         IN  SubSeq(front, 1, k) \o <<last>> \o SubSeq(front, k + 1, Len(front))

\* C1: with two different teams and 1 <= n <= eligibleCount, suggest_players
\* returns exactly n rows, all of team A or team B, in non-increasing score
\* order, and no eligible row left out scores higher than a returned row.
C1_TopNOfEligible ==
    (/\ engine.op = "suggest"
     /\ engine.team_a # engine.team_b
     /\ 1 <= engine.n
     /\ engine.n <= EligibleCount) =>
        /\ Len(engine.result) = engine.n
        /\ \A i \in DOMAIN engine.result :
               engine.result[i].team \in {engine.team_a, engine.team_b}
        /\ Descending(engine.result)
        /\ \A e \in Range(EligibleRows) \ Range(engine.result) :
               \A r \in Range(engine.result) : e.final_score <= r.final_score

\* C1 witness: two of three eligible rows were asked for, and the row left
\* out, the first of the table, scores less than both rows returned.
C1_Witness ==
    /\ engine.op = "suggest"
    /\ engine.team_a # engine.team_b
    /\ engine.n = 2
    /\ EligibleCount = 3
    /\ Len(engine.result) = 2
    /\ EligibleRows[1] \notin Range(engine.result)
    /\ EligibleRows[1].final_score < engine.result[2].final_score

\* C4: with n = 0 or n above the eligible count, the result is the eligible
\* rows in descending order cut to n clamped into [1, eligibleCount], or all
\* of them; with n = 0 and an eligible row it is not empty.
C4_ClampedOrFull ==
    (/\ engine.op = "suggest"
     /\ (engine.n = 0 \/ engine.n > EligibleCount)) =>
        /\ Descending(engine.result)
        /\ \/ Len(engine.result) = EligibleCount
           \/ /\ EligibleCount >= 1
              /\ Len(engine.result)
                     = (IF engine.n < 1 THEN 1 ELSE Min(engine.n, EligibleCount))
        /\ (engine.n = 0 /\ EligibleCount >= 1) => engine.result # <<>>

\* C6: the result is the first n rows of the stable descending sort: rows of
\* equal score keep their order in the season player view.
C6_StableOrder ==
    engine.op = "suggest" =>
        engine.result = head(StableDescending(EligibleRows), engine.n)

-----------------------------------------------------------------------------
(* Properties of the comparison tab (SpecCompare). *)

Found(team, player) == Lookup(players_season_df, team, player) # <<>>

\* C3: a comparison in which a (team, player) selection matches no row of
\* the season player view ends in a warning: no crash, no table, no verdict.
C3_NotFoundIsWarning ==
    (/\ tab2.compared
     /\ \/ ~Found(tab2.team_1, tab2.player_1)
        \/ ~Found(tab2.team_2, tab2.player_2)) =>
        tab2.outcome = "warning"

\* C5: two different selections that are both in the season player view get
\* a table with three verdicts; each verdict names player 1 when player 1's
\* value is greater, player 2 when it is smaller and is "Equal" exactly when
\* the values are equal; the comparison in the other order gives the same
\* three verdicts.
C5_SymmetricVerdicts ==
    (/\ tab2.compared
     /\ Found(tab2.team_1, tab2.player_1)
     /\ Found(tab2.team_2, tab2.player_2)
     /\ ~(tab2.team_1 = tab2.team_2 /\ tab2.player_1 = tab2.player_2)) =>
        LET p1 == Lookup(players_season_df, tab2.team_1, tab2.player_1)[1]
            p2 == Lookup(players_season_df, tab2.team_2, tab2.player_2)[1]
            other == compare(players_season_df, tab2.teams_available,
                             tab2.team_2, tab2.player_2,
                             tab2.team_1, tab2.player_1)
            rule(verdict, v1, v2) ==
                /\ v1 > v2 => verdict = tab2.player_1
                /\ v1 < v2 => verdict = tab2.player_2
                /\ v1 = v2 <=> verdict = "Equal"
        IN  /\ tab2.outcome = "table"
            /\ rule(tab2.batting, p1.runs, p2.runs)
            /\ rule(tab2.bowling, p1.wickets, p2.wickets)
            /\ rule(tab2.overall, p1.performance_score, p2.performance_score)
            /\ other.outcome = "table"
            /\ other.batting = tab2.batting
            /\ other.bowling = tab2.bowling
            /\ other.overall = tab2.overall

\* C5 witness: a table whose three verdicts are player 1, player 2 and tied.
C5_Witness ==
    /\ tab2.outcome = "table"
    /\ tab2.player_1 # tab2.player_2
    /\ tab2.batting = tab2.player_1
    /\ tab2.bowling = tab2.player_2
    /\ tab2.overall = "Equal"

-----------------------------------------------------------------------------
(* Properties of the session (Spec). *)

\* C8: a run resets the stored suggestions to None exactly when the season
\* chosen in the sidebar differs from the recorded one, and records the
\* chosen season; so after every run, stored suggestions come from a call
\* made in the recorded season and hold rows of its season player view.
C8_ResetOnSeasonChange ==
    [][LET changed == widget_season' # selected_season
       IN  /\ selected_season' = widget_season'
           /\ changed => suggestions_df' = NoFrame
           /\ (~changed /\ ~suggestions_df.is_none) => ~suggestions_df'.is_none
           /\ ~suggestions_df'.is_none =>
                  /\ last_call'.made
                  /\ last_call'.season = selected_season'
                  /\ \A r \in Range(suggestions_df'.rows) :
                         \E i \in DOMAIN players_season_df' :
                             r = ScoredRow(players_season_df'[i])]_vars

\* C8 witness: suggestions were stored in one season, and after a run with
\* the other season none are stored.
C8_Witness ==
    /\ pc = "idle"
    /\ last_call.made
    /\ last_call.season # selected_season
    /\ suggestions_df = NoFrame

\* C9: a submission rejected for equal teams or for no eligible player makes
\* no call of suggest_players and leaves the stored suggestions and the
\* recorded season as they were; stored suggestions are displayed again.
C9_RejectedSubmitKeepsState ==
    [][(form'.submitted /\ form'.outcome \in {"error", "warning"}) =>
           /\ ~form'.called
           /\ last_call' = last_call
           /\ suggestions_df' = suggestions_df
           /\ selected_season' = selected_season
           /\ ~suggestions_df.is_none => display' = "results"]_vars

\* C9 witness: a submission was rejected for no eligible player while
\* suggestions of an earlier submission in the season are stored and shown.
C9_Witness ==
    /\ form.submitted
    /\ form.outcome = "warning"
    /\ ~suggestions_df.is_none
    /\ last_call.season = selected_season
    /\ display = "results"

\* C10: stored suggestions hold at least one row and at most as many as
\* there were eligible players, the display never fails on its first row,
\* and every call of suggest_players by the submit handler has two different
\* teams, an eligible row and 1 <= n <= eligibleCount.
C10_CallsWithinRange ==
    /\ ~suggestions_df.is_none =>
           /\ Len(suggestions_df.rows) >= 1
           /\ Len(suggestions_df.rows) <= last_call.eligible
    /\ display # "crash"
    /\ form.called =>
           /\ form.team_a # form.team_b
           /\ last_call.eligible >= 1
           /\ 1 <= form.top_n
           /\ form.top_n <= last_call.eligible

\* C10 witness: the handler asked for two of three eligible players, and
\* the two rows are stored and displayed.
C10_Witness ==
    /\ form.called
    /\ form.top_n = 2
    /\ last_call.eligible = 3
    /\ Len(suggestions_df.rows) = 2
    /\ display = "results"

=============================================================================
